---- MODULE Spec2Model ----
(***************************************************************************)
(* Page-frame allocator and Sv39 mapping engine of src/src/page.rs, from   *)
(* the state kmain of src/src/lib.rs leaves after page::init().            *)
(*                                                                         *)
(* Representation.  TLC integers are 32 bits wide while the program works  *)
(* on 64-bit addresses, so an address is kept as the pair                  *)
(*     [pn |-> address >> 12, off |-> address & 0xfff]                     *)
(* and a page-table entry as the pair                                      *)
(*     [ppn |-> entry >> 10, flags |-> entry & 0x3ff].                     *)
(* Every shift, mask and OR of the source is carried out on these pairs.   *)
(* A 4096-byte frame is kept as the entries at the indices in Slots (the   *)
(* indices the bounded inputs can address); an entry outside Slots is      *)
(* never written and stays 0.                                              *)
(***************************************************************************)
EXTENDS Integers, Sequences, FiniteSets, TLC

(***************************************************************************)
(* Program constants                                                       *)
(***************************************************************************)
PAGE_ORDER == 12
PAGE_SIZE == 4096
\* size_of::<Page>() : struct Page { flags: u8 }
PageDescSize == 1
\* number of entries of a Table
TableEntries == 512
\* size_of::<Entry>() : struct Entry { entry: i64 }
EntrySize == 8
\* page number of the linker-provided HEAP_START (0x8010_0000)
HEAP_START_PN == 524544

Empty == 0
Taken == 1
Last == 2

EntryValid == 1
EntryRead == 2
EntryWrite == 4
EntryExecute == 8
EntryUser == 16
EntryRW == 6

(***************************************************************************)
(* Bounds of the model                                                     *)
(***************************************************************************)
\* HEAP_SIZE / PAGE_SIZE of the allocator specification
HeapPages == 8
\* largest in-range page count passed to alloc / zalloc
MaxCount == 2
\* HEAP_SIZE / PAGE_SIZE of the mapping specification
VMHeapPages == 4
\* number of map calls
MaxMaps == 3
\* number of frames callers of zalloc hold at a time beside the mapper
MaxHeld == 1
\* number of calls followed from the first dealloc of something other than a
\* live allocation that returns, that dealloc included
MaxMisuse == 2
\* number of allocations callers hold at a time in the heap-size specification
MaxLive == 2

VARIABLES HEAP_SIZE, ALLOC_START, pages, mem, root, status, last, snap,
          live, misuse, nmaps, mapped, lvl0

vars == <<HEAP_SIZE, ALLOC_START, pages, mem, root, status, last, snap,
          live, misuse, nmaps, mapped, lvl0>>

(***************************************************************************)
(* Bit arithmetic on naturals                                              *)
(***************************************************************************)
RECURSIVE BitOr(_, _)
BitOr(a, b) ==
    IF a = 0 THEN b
    ELSE IF b = 0 THEN a
    ELSE (IF a % 2 = 1 \/ b % 2 = 1 THEN 1 ELSE 0) + 2 * BitOr(a \div 2, b \div 2)

RECURSIVE BitAnd(_, _)
BitAnd(a, b) ==
    IF a = 0 \/ b = 0 THEN 0
    ELSE (IF a % 2 = 1 /\ b % 2 = 1 THEN 1 ELSE 0) + 2 * BitAnd(a \div 2, b \div 2)

(***************************************************************************)
(* Addresses                                                               *)
(***************************************************************************)
Addr(p, o) == [pn |-> p, off |-> o]

NULL == Addr(0, 0)

HEAP_START == Addr(HEAP_START_PN, 0)

\* a + n bytes
AddrAdd(a, n) == Addr(a.pn + ((a.off + n) \div PAGE_SIZE), (a.off + n) % PAGE_SIZE)

AddrLess(a, b) == a.pn < b.pn \/ (a.pn = b.pn /\ a.off < b.off)

\* (a - b) / PAGE_SIZE for a >= b
PageDiff(a, b) == (a.pn - b.pn) - (IF a.off < b.off THEN 1 ELSE 0)

\* align_val(val, order) = (val + o) & !o with o = 2^order - 1
align_val(val, order) ==
    IF order <= PAGE_ORDER
    THEN LET o == 2^order - 1
             t == val.off + o
             r == t - (t % (o + 1))
         IN  Addr(val.pn + (r \div PAGE_SIZE), r % PAGE_SIZE)
    ELSE LET q == 2^(order - PAGE_ORDER)
             p == val.pn + (IF val.off > 0 THEN 1 ELSE 0) + (q - 1)
         IN  Addr(p - (p % q), 0)

(***************************************************************************)
(* Frame descriptors (struct Page)                                         *)
(***************************************************************************)
is_last(f) == BitAnd(f, Last) # 0

is_taken(f) == BitAnd(f, Taken) # 0

is_free(f) == ~is_taken(f)

set_flag(f, flag) == BitOr(f, flag)

num_pages(hs) == hs \div PAGE_SIZE

(***************************************************************************)
(* init                                                                    *)
(***************************************************************************)
init_pages_keep(hs) == [i \in 0..(num_pages(hs) - 1) |-> Taken]

init_pages(hs) == [i \in 0..(num_pages(hs) - 1) |-> Empty]

init_alloc_start(hs) ==
    align_val(AddrAdd(HEAP_START, num_pages(hs) * PageDescSize), PAGE_ORDER)

(***************************************************************************)
(* alloc                                                                   *)
(***************************************************************************)
\* lines 115-126: the candidate index i is free and none of i..i+n-1 is taken
alloc_found_first_only(pg, i, n) == is_free(pg[i])

alloc_found(pg, i, n) ==
    /\ is_free(pg[i])
    /\ \A j \in i..(i + n - 1) : ~is_taken(pg[j])

\* lines 129-134
alloc_mark_no_last(pg, i, n) ==
    [k \in DOMAIN pg |-> IF k \in i..(i + n - 1) THEN set_flag(pg[k], Taken) ELSE pg[k]]

alloc_mark(pg, i, n) ==
    [k \in DOMAIN pg |->
        IF k \in i..(i + n - 2) THEN set_flag(pg[k], Taken)
        ELSE IF k = i + n - 1 THEN set_flag(set_flag(pg[k], Taken), Last)
        ELSE pg[k]]

\* line 114: for i in 0..num_pages - pages ; -1 when the range is exhausted
RECURSIVE alloc_scan_last_fit(_, _, _, _)
alloc_scan_last_fit(pg, i, limit, n) ==
    IF i >= limit THEN -1
    ELSE LET later == alloc_scan_last_fit(pg, i + 1, limit, n)
         IN  IF later # -1 THEN later
             ELSE IF alloc_found(pg, i, n) THEN i ELSE -1

RECURSIVE alloc_scan(_, _, _, _)
alloc_scan(pg, i, limit, n) ==
    IF i >= limit THEN -1
    ELSE IF alloc_found(pg, i, n) THEN i
    ELSE alloc_scan(pg, i + 1, limit, n)

\* alloc(pages) for 1 <= pages <= num_pages
alloc(pg, hs, as, n) ==
    LET i == alloc_scan(pg, 0, num_pages(hs) - n, n)
    IN  IF i = -1
        THEN [pages |-> pg, ret |-> NULL]
        ELSE [pages |-> alloc_mark(pg, i, n), ret |-> AddrAdd(as, PAGE_SIZE * i)]

(***************************************************************************)
(* dealloc                                                                 *)
(***************************************************************************)
\* lines 153-156: clear while taken and not last
RECURSIVE dealloc_walk_keep(_, _)
dealloc_walk_keep(pg, p) ==
    IF p \in DOMAIN pg /\ is_taken(pg[p]) /\ ~is_last(pg[p])
    THEN dealloc_walk_keep(pg, p + 1)
    ELSE [pages |-> pg, p |-> p]

RECURSIVE dealloc_walk(_, _)
dealloc_walk(pg, p) ==
    IF p \in DOMAIN pg /\ is_taken(pg[p]) /\ ~is_last(pg[p])
    THEN dealloc_walk([pg EXCEPT ![p] = Empty], p + 1)
    ELSE [pages |-> pg, p |-> p]

\* line 159: assert!((*p).is_last() == true)
dealloc_last_check_off(f) == TRUE

dealloc_last_check(f) == is_last(f)

\* line 148: (page_ptr - ALLOC_START) / PAGE_SIZE
dealloc_index(as, ptr) == PageDiff(ptr, as)

\* dealloc(page_ptr); status "outside" when the walk reads a byte that is
\* not one of the num_pages descriptors
dealloc(pg, hs, as, ptr) ==
    IF ptr = NULL
    THEN [pages |-> pg, status |-> "panic"]
    ELSE IF AddrLess(ptr, as)
    \* page_ptr - ALLOC_START underflows: a panic with overflow checks; wrapped,
    \* the index is above 2^51 and the assertion of line 150 fails
    THEN [pages |-> pg, status |-> "panic"]
    ELSE IF ~(dealloc_index(as, ptr) < hs)
    THEN [pages |-> pg, status |-> "panic"]
    ELSE IF dealloc_index(as, ptr) \notin DOMAIN pg
    THEN [pages |-> pg, status |-> "outside"]
    ELSE LET w == dealloc_walk(pg, dealloc_index(as, ptr))
         IN  IF w.p \notin DOMAIN pg
             THEN [pages |-> w.pages, status |-> "outside"]
             ELSE IF dealloc_last_check(w.pages[w.p])
             THEN [pages |-> [w.pages EXCEPT ![w.p] = Empty], status |-> "run"]
             ELSE [pages |-> w.pages, status |-> "panic"]

(***************************************************************************)
(* print_page_allocations                                                  *)
(***************************************************************************)
\* line 205: if (*beg).is_last()
print_stop_never(f) == FALSE

print_stop(f) == is_last(f)

\* lines 203-213: the inner loop from descriptor b on; the index of the
\* descriptor it stops at, -1 when it leaves the descriptor array
RECURSIVE print_run(_, _)
print_run(pg, b) ==
    IF b \notin DOMAIN pg THEN -1
    ELSE IF print_stop(pg[b]) THEN b
    ELSE print_run(pg, b + 1)

\* lines 198-216: the outer loop from descriptor beg on, num pages counted
RECURSIVE print_scan(_, _, _)
RECURSIVE print_taken(_, _, _, _)
print_taken(pg, beg, e, num) ==
    \* past the array the loop reads bytes that are no descriptors
    IF e = -1 THEN [status |-> "ub", num |-> num]
    ELSE print_scan(pg, e + 1, num + (e - beg) + 1)

print_scan(pg, beg, num) ==
    IF beg \notin DOMAIN pg THEN [status |-> "run", num |-> num]
    ELSE IF is_taken(pg[beg]) THEN print_taken(pg, beg, print_run(pg, beg), num)
    ELSE print_scan(pg, beg + 1, num)

\* print_page_allocations(): it only reads the descriptors
print_page_allocations(pg) == print_scan(pg, 0, 0)

(***************************************************************************)
(* Page-table entries (struct Entry) and tables (struct Table)             *)
(***************************************************************************)
Entry(p, f) == [ppn |-> p, flags |-> f]

ZeroEntry == Entry(0, 0)

is_valid(e) == BitAnd(e.flags, EntryValid) # 0

is_invalid(e) == ~is_valid(e)

\* (entry & 0xe) != 0
is_leaf(e) == BitAnd(e.flags, EntryRead + EntryWrite + EntryExecute) # 0

is_branch(e) == ~is_leaf(e)

\* the three 9-bit fields (vaddr >> 12, 21, 30) & 0x1ff
VPN(vaddr, i) == (vaddr.pn \div (TableEntries ^ i)) % TableEntries

\* (paddr >> 12) & 0x1ff, (paddr >> 21) & 0x1ff, (paddr >> 30) & 0x3ff_ffff
PPN(paddr, i) ==
    IF i < 2
    THEN (paddr.pn \div (TableEntries ^ i)) % TableEntries
    ELSE (paddr.pn \div (TableEntries ^ 2)) % (2 ^ 26)

\* (page as i64 >> 2) | Valid
branch_entry(page) == Entry(page.pn, BitOr(page.off \div 4, EntryValid))

\* (entry & !0x3ff) << 2, the address of the next table
entry_table_addr(e) == Addr(e.ppn, 0)

\* ppn[2] << 28 | ppn[1] << 19 | ppn[0] << 10 | bits | Valid, for bits < 2^10
leaf_entry(paddr, bits) ==
    Entry(PPN(paddr, 2) * (TableEntries ^ 2) + PPN(paddr, 1) * TableEntries + PPN(paddr, 0),
          BitOr(bits, EntryValid))

\* lines 420-423: ((entry << 2) & !off_mask) | (vaddr & off_mask), off_mask = 2^(12+9i) - 1
leaf_phys_4k(e, vaddr, i) == Addr(e.ppn, vaddr.off)

leaf_phys(e, vaddr, i) ==
    Addr((e.ppn - (e.ppn % (TableEntries ^ i))) + (vaddr.pn % (TableEntries ^ i)),
         vaddr.off)

(***************************************************************************)
(* Bounded inputs                                                          *)
(***************************************************************************)
\* 0x1234, 0x2000, 0x20_1000
VAddrs == {Addr(1, 564), Addr(2, 0), Addr(TableEntries + 1, 0)}

\* 0x8000_0000 and 0x8020_3000
PAddrA == Addr(524288, 0)

PAddrB == Addr(524803, 0)

MapBits == {EntryRW, EntryUser}

\* the (vaddr, paddr) pairs map is called with: the first page with either
\* target, the others with one each
MapPairs ==
    {<<Addr(1, 564), PAddrA>>, <<Addr(1, 564), PAddrB>>,
     <<Addr(2, 0), PAddrA>>, <<Addr(TableEntries + 1, 0), PAddrB>>}

\* the (start, end) pairs id_map_range is called with: 0x1234..0x2000 (one
\* page, end aligned), 0x1234..0x2001 (two pages), 0x201000..0x201001
IdRanges ==
    {<<Addr(1, 564), Addr(2, 0)>>, <<Addr(1, 564), Addr(2, 1)>>,
     <<Addr(TableEntries + 1, 0), Addr(TableEntries + 1, 1)>>}

\* superpage inputs: the bases 0x0 and 0x20_0000 beside VAddrs
SuperVAddrs == VAddrs \cup {Addr(0, 0), Addr(TableEntries, 0)}

\* 0x8020_0000
PAddrC == Addr(524800, 0)

\* the (vaddr, paddr, level) triples of the map calls with superpage levels:
\* a 1 GiB leaf, two 2 MiB leaves, one 2 MiB call with neither address
\* aligned, and two 4 KiB leaves
SuperMaps ==
    {<<Addr(0, 0), PAddrA, 2>>,
     <<Addr(TableEntries, 0), PAddrC, 1>>, <<Addr(0, 0), PAddrA, 1>>,
     <<Addr(TableEntries + 1, 0), PAddrB, 1>>,
     <<Addr(1, 564), PAddrA, 0>>, <<Addr(TableEntries + 1, 0), PAddrB, 0>>}

\* the entry indices the inputs address
Slots == {VPN(v, i) : v \in SuperVAddrs, i \in 0..2}

ZeroTable == [s \in Slots |-> ZeroEntry]

\* what an owner leaves in a frame: a valid leaf whose page number is that
\* of the second usable frame
Garbage(as) == {Entry(as.pn + 1, EntryValid + EntryRead + EntryWrite + EntryExecute)}

(***************************************************************************)
(* Memory of the usable frames                                             *)
(***************************************************************************)
\* the usable frame a table address lies in, or -1
frame_of(m, as, a) ==
    IF a.pn - as.pn \in DOMAIN m THEN a.pn - as.pn ELSE -1

ReadAt(rt, m, loc) == IF loc.t = -1 THEN rt[loc.i] ELSE m[loc.t][loc.i]

(***************************************************************************)
(* zalloc                                                                  *)
(***************************************************************************)
\* lines 169-176: the loop over the region's words; its body is empty
zalloc_fill(m, as, ret, n) == m

zalloc(pg, m, hs, as, n) ==
    LET r == alloc(pg, hs, as, n)
    IN  [pages |-> r.pages, ret |-> r.ret,
         mem |-> IF r.ret # NULL THEN zalloc_fill(m, as, r.ret, n) ELSE m]

(***************************************************************************)
(* map                                                                     *)
(***************************************************************************)
\* line 318: assert!(bits & 0xe != 0)
map_bits_ok_any(bits) == TRUE

map_bits_ok(bits) == BitAnd(bits, EntryRead + EntryWrite + EntryExecute) # 0

\* lines 345-352: v.set_entry((page >> 2) | Valid), page the result z of zalloc(1)
map_set_branch(s, z) ==
    [s EXCEPT
       !.pages = z.pages,
       !.mem   = IF s.loc.t = -1 THEN z.mem
                 ELSE [z.mem EXCEPT ![s.loc.t][s.loc.i] = branch_entry(z.ret)],
       !.root  = IF s.loc.t = -1 THEN [s.root EXCEPT ![s.loc.i] = branch_entry(z.ret)]
                 ELSE s.root,
       !.got   = IF z.ret # NULL THEN s.got \cup {z.ret} ELSE s.got,
       !.failed = s.failed \/ z.ret = NULL]

\* lines 344-353: if !v.is_valid() { ... }
map_grow(s, hs, as) ==
    IF is_valid(ReadAt(s.root, s.mem, s.loc)) THEN s
    ELSE map_set_branch(s, zalloc(s.pages, s.mem, hs, as, 1))

\* line 359: v = entry.add(vpn[i]).as_mut().unwrap(), entry being tbl
map_deref(s, tbl, as, vi) ==
    IF AddrAdd(tbl, EntrySize * vi) = NULL
    \* as_mut() is None for the null pointer: unwrap panics
    THEN [s EXCEPT !.status = "panic"]
    ELSE IF frame_of(s.mem, as, tbl) # -1
    THEN [s EXCEPT !.loc = [t |-> frame_of(s.mem, as, tbl), i |-> vi]]
    \* a reference into memory that is no usable frame
    ELSE [s EXCEPT !.status = "ub"]

\* lines 357-359
map_next(s, as, vi) ==
    map_deref(s, entry_table_addr(ReadAt(s.root, s.mem, s.loc)), as, vi)

\* one iteration of the loop of lines 343-360 for the index vi = vpn[i]
map_step(s, hs, as, vi) == map_next(map_grow(s, hs, as), as, vi)

\* the loop for i in (level..2).rev()
RECURSIVE map_walk(_, _, _, _, _, _)
map_walk(s, hs, as, vaddr, i, level) ==
    IF i < level \/ s.status # "run" THEN s
    ELSE map_walk(map_step(s, hs, as, VPN(vaddr, i)), hs, as, vaddr, i - 1, level)

\* lines 365-371
map_leaf(s, paddr, bits) ==
    IF s.status # "run" THEN s
    ELSE IF s.loc.t = -1
    THEN [s EXCEPT !.root = [s.root EXCEPT ![s.loc.i] = leaf_entry(paddr, bits)]]
    ELSE [s EXCEPT !.mem = [s.mem EXCEPT ![s.loc.t][s.loc.i] = leaf_entry(paddr, bits)]]

\* the state map starts in: v = &mut root.entries[vpn[2]] (line 341)
map_start(rt, m, pg, vaddr) ==
    [root |-> rt, mem |-> m, pages |-> pg, got |-> {}, failed |-> FALSE,
     status |-> "run", loc |-> [t |-> -1, i |-> VPN(vaddr, 2)]]

map(rt, m, pg, hs, as, vaddr, paddr, bits, level) ==
    IF ~map_bits_ok(bits)
    THEN [map_start(rt, m, pg, vaddr) EXCEPT !.status = "panic"]
    ELSE map_leaf(map_walk(map_start(rt, m, pg, vaddr), hs, as, vaddr, 1, level),
                  paddr, bits)

(***************************************************************************)
(* id_map_range (lib.rs)                                                   *)
(***************************************************************************)
\* line 76: start & !(PAGE_SIZE - 1)
id_first(start) == Addr(start.pn, 0)

\* line 77: (align_val(end, 12) - memaddr) / PAGE_SIZE
num_kb_pages(start, end) == PageDiff(align_val(end, PAGE_ORDER), id_first(start))

\* the state after the call of line 80 whose outcome is r
id_map_joined(s, r, memaddr) ==
    [root |-> r.root, mem |-> r.mem, pages |-> r.pages, status |-> r.status,
     got |-> s.got \cup r.got, failed |-> s.failed \/ r.failed,
     calls |-> s.calls + 1, targets |-> s.targets \cup {memaddr.pn}]

\* line 80: map(root, memaddr, memaddr, bits, 0)
id_map_call(s, hs, as, memaddr, bits) ==
    id_map_joined(s, map(s.root, s.mem, s.pages, hs, as, memaddr, memaddr, bits, 0), memaddr)

\* lines 79-82: k iterations from memaddr on
RECURSIVE id_map_loop(_, _, _, _, _, _)
id_map_loop(s, hs, as, memaddr, bits, k) ==
    IF k <= 0 \/ s.status # "run" THEN s
    ELSE id_map_loop(id_map_call(s, hs, as, memaddr, bits), hs, as,
                     AddrAdd(memaddr, 2^PAGE_ORDER), bits, k - 1)

\* id_map_range(root, start, end, bits) for end not below the page of start
id_map_range(rt, m, pg, hs, as, start, end, bits) ==
    id_map_loop([root |-> rt, mem |-> m, pages |-> pg, status |-> "run", got |-> {},
                 failed |-> FALSE, calls |-> 0, targets |-> {}],
                hs, as, id_first(start), bits, num_kb_pages(start, end))

(***************************************************************************)
(* unmap                                                                   *)
(***************************************************************************)
\* Table::len(): size_of::<Table>(), the byte size of the 512 entries
Table_len == TableEntries * EntrySize

\* the index a loop over 0..Table::len() reaches after i at which something
\* can happen: the next index of Slots (every entry between is 0, not valid,
\* and skipped), else the first index past the array, else the loop's end
unmap_after(i) ==
    IF \E k \in Slots : k > i /\ k < Table_len
    THEN CHOOSE k \in Slots : k > i /\ k < Table_len /\ \A j \in Slots : j > i => k <= j
    ELSE IF TableEntries < Table_len THEN TableEntries
    ELSE Table_len

\* dealloc(memaddr as *mut u8) inside unmap, r its outcome
unmap_freed(s, r) ==
    [pages |-> r.pages,
     status |-> IF r.status = "outside" THEN "ub" ELSE r.status]

\* not reached when the loop before it has halted
unmap_free(s, hs, as, memaddr) ==
    IF s.status # "run" THEN s
    ELSE unmap_freed(s, dealloc(s.pages, hs, as, memaddr))

\* lines 384-392: the loop over the level-1 table in frame f from index lv1 on
RECURSIVE unmap_lv1(_, _, _, _, _, _)
unmap_lv1(m, s, hs, as, f, lv1) ==
    IF s.status # "run" \/ lv1 >= Table_len THEN s
    \* table_lv1.entries[lv1] with lv1 >= 512: the index is out of bounds
    ELSE IF lv1 >= TableEntries THEN [s EXCEPT !.status = "panic"]
    ELSE IF is_valid(m[f][lv1]) /\ is_branch(m[f][lv1])
    THEN unmap_lv1(m, unmap_free(s, hs, as, entry_table_addr(m[f][lv1])), hs, as, f,
                   unmap_after(lv1))
    ELSE unmap_lv1(m, s, hs, as, f, unmap_after(lv1))

\* lines 380-394 for a valid branch entry of the root whose table is at memaddr
unmap_child(m, s, hs, as, memaddr) ==
    \* (memaddr_lv1 as *mut Table).as_mut().unwrap()
    IF memaddr = NULL THEN [s EXCEPT !.status = "panic"]
    ELSE IF frame_of(m, as, memaddr) = -1 THEN [s EXCEPT !.status = "ub"]
    ELSE unmap_free(unmap_lv1(m, s, hs, as, frame_of(m, as, memaddr), 0), hs, as, memaddr)

\* lines 376-397: the loop over the root from index lv2 on
RECURSIVE unmap_lv2(_, _, _, _, _, _)
unmap_lv2(rt, m, s, hs, as, lv2) ==
    IF s.status # "run" \/ lv2 >= Table_len THEN s
    \* root.entries[lv2] with lv2 >= 512: the index is out of bounds
    ELSE IF lv2 >= TableEntries THEN [s EXCEPT !.status = "panic"]
    ELSE IF is_valid(rt[lv2]) /\ is_branch(rt[lv2])
    THEN unmap_lv2(rt, m, unmap_child(m, s, hs, as, entry_table_addr(rt[lv2])), hs, as,
                   unmap_after(lv2))
    ELSE unmap_lv2(rt, m, s, hs, as, unmap_after(lv2))

unmap(rt, m, pg, hs, as) ==
    unmap_lv2(rt, m, [pages |-> pg, status |-> "run"], hs, as, 0)

(***************************************************************************)
(* virt_to_phys                                                            *)
(***************************************************************************)
\* the loop for i in (0..=2).rev(), v being the entry at loc
RECURSIVE v2p_walk(_, _, _, _, _, _)
v2p_walk(rt, m, as, vaddr, loc, i) ==
    LET e == ReadAt(rt, m, loc)
    IN  IF is_invalid(e)
        THEN [status |-> "run", some |-> FALSE, addr |-> NULL]
        ELSE IF is_leaf(e)
        THEN [status |-> "run", some |-> TRUE, addr |-> leaf_phys(e, vaddr, i)]
        ELSE IF i = 0
        \* vpn[i-1]: the subtraction overflows, or wrapped the index is out of bounds
        THEN [status |-> "panic", some |-> FALSE, addr |-> NULL]
        ELSE LET tbl == entry_table_addr(e)
                 ptr == AddrAdd(tbl, EntrySize * VPN(vaddr, i - 1))
                 f   == frame_of(m, as, tbl)
             IN  IF ptr = NULL
                 THEN [status |-> "panic", some |-> FALSE, addr |-> NULL]
                 ELSE IF f # -1
                 THEN v2p_walk(rt, m, as, vaddr, [t |-> f, i |-> VPN(vaddr, i - 1)], i - 1)
                 ELSE [status |-> "ub", some |-> FALSE, addr |-> NULL]

virt_to_phys(rt, m, as, vaddr) ==
    v2p_walk(rt, m, as, vaddr, [t |-> -1, i |-> VPN(vaddr, 2)], 2)

(***************************************************************************)
(* State machine                                                           *)
(*   status  "run", "panic" (the fatal halt of lib.rs panic/abort) or "ub" *)
(*           (the code has referenced memory that is no usable frame)      *)
(*   last    the latest call: its name, arguments and result, and in rel   *)
(*           how it follows the call before it:                            *)
(*             "undo"  a dealloc of the address the call before, an alloc  *)
(*                     or zalloc, returned                                 *)
(*             "again" a dealloc of the address the call before, a dealloc *)
(*                     that returned, was given                            *)
(*             "query" a virt_to_phys of the vaddr the call before, a map, *)
(*                     was given; pa, bits, level are those of that map    *)
(*   snap    the frame descriptors before the latest call (for an "undo",  *)
(*           before the alloc it follows)                                  *)
(*   live    the allocations handed out and not yet given back, by telling *)
(*           whether a caller of alloc / zalloc or map holds them          *)
(*   misuse  0 until a dealloc that walked descriptors of something other  *)
(*           than the first frame of a live allocation has returned; from  *)
(*           then on the number of calls made, that dealloc included       *)
(*   mapped  the virtual pages that were the target of a map call          *)
(*   lvl0    every map call so far had start level 0                       *)
(***************************************************************************)
Op(op, n, ptr, va, pa, bits, level, some, rel) ==
    [op |-> op, n |-> n, ptr |-> ptr, va |-> va, pa |-> pa, bits |-> bits,
     level |-> level, some |-> some, rel |-> rel]

Boot == Op("boot", 0, NULL, NULL, NULL, 0, 0, FALSE, "none")

InitWith(np) ==
    /\ HEAP_SIZE = np * PAGE_SIZE
    /\ ALLOC_START = init_alloc_start(HEAP_SIZE)
    /\ pages = init_pages(HEAP_SIZE)
    /\ mem = [f \in 0..(np - 1) |-> ZeroTable]
    /\ root = ZeroTable
    /\ status = "run"
    /\ last = Boot
    /\ snap = pages
    /\ live = {}
    /\ misuse = 0
    /\ nmaps = 0
    /\ mapped = {}
    /\ lvl0 = TRUE

\* the state after kmain's page::init() (lib.rs line 98)
Init == InitWith(HeapPages)

InitVM == InitWith(VMHeapPages)

Range(l) == l.addr.pn .. (l.addr.pn + l.count - 1)

\* one more call, bad telling whether it is a dealloc of the kind misuse counts
Tick(bad) ==
    /\ misuse < MaxMisuse
    /\ misuse' = IF bad \/ misuse > 0 THEN misuse + 1 ELSE 0

\* init(); whatever was handed out before is void afterwards
page_init ==
    /\ status = "run"
    /\ pages' = init_pages(HEAP_SIZE)
    /\ ALLOC_START' = init_alloc_start(HEAP_SIZE)
    /\ last' = Op("init", 0, NULL, NULL, NULL, 0, 0, FALSE, "none")
    /\ snap' = pages
    /\ live' = {}
    /\ Tick(FALSE)
    /\ UNCHANGED <<HEAP_SIZE, mem, root, status, nmaps, mapped, lvl0>>

\* alloc(n) and zalloc(n), op naming the entry point
AllocCall(op, n) ==
    /\ status = "run"
    /\ snap' = pages
    /\ Tick(FALSE)
    /\ UNCHANGED <<HEAP_SIZE, ALLOC_START, root, nmaps, mapped, lvl0>>
    /\ IF n = 0
       \* assert!(pages > 0)
       THEN /\ status' = "panic"
            /\ last' = Op(op, n, NULL, NULL, NULL, 0, 0, FALSE, "none")
            /\ UNCHANGED <<pages, mem, live>>
       ELSE IF n > num_pages(HEAP_SIZE)
       \* num_pages - pages underflows: a panic with overflow checks; wrapped,
       \* the scan reads descriptors past the end of the array
       THEN /\ status' \in {"panic", "ub"}
            /\ last' = Op(op, n, NULL, NULL, NULL, 0, 0, FALSE, "none")
            /\ UNCHANGED <<pages, mem, live>>
       ELSE LET a == alloc(pages, HEAP_SIZE, ALLOC_START, n)
                r == IF op = "zalloc"
                     THEN zalloc(pages, mem, HEAP_SIZE, ALLOC_START, n)
                     ELSE [pages |-> a.pages, ret |-> a.ret, mem |-> mem]
            IN  /\ status' = "run"
                /\ pages' = r.pages
                /\ mem' = r.mem
                /\ last' = Op(op, n, r.ret, NULL, NULL, 0, 0, r.ret # NULL, "none")
                /\ live' = IF r.ret # NULL
                           THEN live \cup {[addr |-> r.ret, count |-> n, by |-> "caller"]}
                           ELSE live

Alloc(n) == AllocCall("alloc", n)

Zalloc(n) == AllocCall("zalloc", n)

\* the live allocation whose first frame is the one ptr lies in
LiveAt(ptr) ==
    {l \in live : ~AddrLess(ptr, ALLOC_START)
                    /\ dealloc_index(ALLOC_START, l.addr) = dealloc_index(ALLOC_START, ptr)}

\* dealloc(ptr)
Dealloc(ptr) ==
    /\ status = "run"
    /\ LET r    == dealloc(pages, HEAP_SIZE, ALLOC_START, ptr)
           undo == last.op \in {"alloc", "zalloc"} /\ last.some /\ last.ptr = ptr
           bad  == r.status = "run" /\ LiveAt(ptr) = {}
       IN  /\ pages' = r.pages
           \* outside the descriptor array the walk reads heap bytes that init
           \* never wrote: either outcome of the Last test can follow
           /\ status' \in (IF r.status = "outside" THEN {"run", "panic"} ELSE {r.status})
           /\ Tick(bad)
           /\ last' = Op("dealloc", IF undo THEN last.n ELSE 0, ptr, NULL, NULL, 0, 0, FALSE,
                         IF undo THEN "undo"
                         ELSE IF last.op = "dealloc" /\ last.ptr = ptr THEN "again"
                         ELSE "none")
           /\ snap' = IF undo THEN snap ELSE pages
    /\ live' = live \ LiveAt(ptr)
    /\ UNCHANGED <<HEAP_SIZE, ALLOC_START, mem, root, nmaps, mapped, lvl0>>

\* the holder of a live allocation stores e at entry index s of its frame f
WriteFrame(f, s, e) ==
    /\ status = "run"
    /\ mem[f][s] # e
    /\ \E l \in live : l.by = "caller" /\ ALLOC_START.pn + f \in Range(l)
    /\ mem' = [mem EXCEPT ![f][s] = e]
    /\ last' = Op("write", f, NULL, NULL, NULL, 0, 0, FALSE, "none")
    /\ snap' = pages
    /\ Tick(FALSE)
    /\ UNCHANGED <<HEAP_SIZE, ALLOC_START, pages, root, status, live, nmaps, mapped, lvl0>>

\* the state after a map call whose outcome is r
MapDone(r, vaddr, paddr, bits, level) ==
    /\ root' = r.root
    /\ mem' = r.mem
    /\ pages' = r.pages
    /\ status' = r.status
    /\ live' = live \cup {[addr |-> a, count |-> 1, by |-> "map"] : a \in r.got}
    /\ last' = Op("map", Cardinality(r.got), NULL, vaddr, paddr, bits, level,
                  ~r.failed, "none")

\* map(root, vaddr, paddr, bits, level)
Map(vaddr, paddr, bits, level) ==
    /\ status = "run"
    /\ nmaps < MaxMaps
    /\ MapDone(map(root, mem, pages, HEAP_SIZE, ALLOC_START, vaddr, paddr, bits, level),
               vaddr, paddr, bits, level)
    /\ snap' = pages
    /\ nmaps' = nmaps + 1
    /\ mapped' = IF map_bits_ok(bits) THEN mapped \cup {vaddr.pn} ELSE mapped
    /\ lvl0' = (lvl0 /\ (level = 0 \/ ~map_bits_ok(bits)))
    /\ Tick(FALSE)
    /\ UNCHANGED <<HEAP_SIZE, ALLOC_START>>

\* the state after an id_map_range call whose outcome is r
IdMapRangeDone(r, start, end, bits) ==
    /\ root' = r.root
    /\ mem' = r.mem
    /\ pages' = r.pages
    /\ status' = r.status
    /\ live' = live \cup {[addr |-> a, count |-> 1, by |-> "map"] : a \in r.got}
    /\ last' = Op("id_map_range", r.calls, NULL, start, end, bits, 0, ~r.failed, "none")
    /\ nmaps' = nmaps + r.calls
    /\ mapped' = mapped \cup r.targets

\* id_map_range(root, start, end, bits)
IdMapRange(start, end, bits) ==
    /\ status = "run"
    /\ nmaps + num_kb_pages(start, end) <= MaxMaps
    /\ IdMapRangeDone(id_map_range(root, mem, pages, HEAP_SIZE, ALLOC_START, start, end, bits),
                      start, end, bits)
    /\ snap' = pages
    /\ Tick(FALSE)
    /\ UNCHANGED <<HEAP_SIZE, ALLOC_START, lvl0>>

\* the state after an unmap call whose outcome is r; a table frame whose
\* descriptor is no longer taken is no longer held
UnmapDone(r) ==
    /\ pages' = r.pages
    /\ status' = r.status
    /\ live' = {l \in live : is_taken(r.pages[PageDiff(l.addr, ALLOC_START)])}
    /\ last' = Op("unmap", Cardinality({i \in DOMAIN pages : pages[i] # r.pages[i]}),
                  NULL, NULL, NULL, 0, 0, r.status = "run", "none")

\* unmap(root)
Unmap ==
    /\ status = "run"
    /\ UnmapDone(unmap(root, mem, pages, HEAP_SIZE, ALLOC_START))
    /\ snap' = pages
    /\ Tick(FALSE)
    /\ UNCHANGED <<HEAP_SIZE, ALLOC_START, mem, root, nmaps, mapped, lvl0>>

\* virt_to_phys(root, vaddr)
VirtToPhys(vaddr) ==
    /\ status = "run"
    /\ LET r == virt_to_phys(root, mem, ALLOC_START, vaddr)
           q == /\ last.op = "map"
                /\ \/ last.va = vaddr
                   \/ /\ last.level > 0
                      /\ vaddr.pn \div (TableEntries ^ last.level)
                             = last.va.pn \div (TableEntries ^ last.level)
       IN  /\ status' = r.status
           /\ last' = Op("virt_to_phys", 0, r.addr, vaddr,
                         IF q THEN last.pa ELSE NULL, IF q THEN last.bits ELSE 0,
                         IF q THEN last.level ELSE 0, r.some,
                         IF q THEN "query" ELSE "none")
    /\ snap' = pages
    /\ Tick(FALSE)
    /\ UNCHANGED <<HEAP_SIZE, ALLOC_START, pages, mem, root, live, nmaps,
                   mapped, lvl0>>

\* the state after print_page_allocations() whose outcome is r
PageDumpDone(r) ==
    /\ status' = r.status
    /\ last' = Op("print", r.num, NULL, NULL, NULL, 0, 0, FALSE, "none")

\* print_page_allocations()
PageDump ==
    /\ status = "run"
    /\ PageDumpDone(print_page_allocations(pages))
    /\ snap' = pages
    /\ Tick(FALSE)
    /\ UNCHANGED <<HEAP_SIZE, ALLOC_START, pages, mem, root, live, nmaps, mapped, lvl0>>

\* page counts: the assertion's case 0, 1..MaxCount, and whole-heap requests
AllocCounts ==
    (0..MaxCount) \cup ((num_pages(HEAP_SIZE) - 1)..(num_pages(HEAP_SIZE) + 1))

\* every frame start up to two past the descriptor count
FramePtrs == {AddrAdd(ALLOC_START, k * PAGE_SIZE) : k \in 0..(num_pages(HEAP_SIZE) + 1)}

\* null, the frame starts, an address inside a frame, the heap base (below
\* ALLOC_START) and an address whose index is HEAP_SIZE
DeallocPtrs ==
    {NULL, HEAP_START, AddrAdd(ALLOC_START, EntrySize), Addr(ALLOC_START.pn + HEAP_SIZE, 0)}
        \cup FramePtrs

Next ==
    \/ page_init
    \/ \E n \in AllocCounts : Alloc(n)
    \/ \E n \in 1..MaxCount : Zalloc(n)
    \/ \E p \in DeallocPtrs : Dealloc(p)

Spec == Init /\ [][Next]_vars

\* the addresses of the allocations callers of alloc / zalloc hold
HeldPtrs == {l.addr : l \in {h \in live : h.by = "caller"}}

\* the allocator with dealloc called on start addresses of live allocations
\* only, and the diagnostic enumeration
NextLive ==
    \/ page_init
    \/ \E n \in AllocCounts : Alloc(n)
    \/ \E n \in 1..MaxCount : Zalloc(n)
    \/ \E p \in HeldPtrs : Dealloc(p)
    \/ PageDump

SpecLive == Init /\ [][NextLive]_vars

\* the mapper with every map call at start level 0, over a heap in which
\* callers take, write and give back single frames
NextVM ==
    \/ Cardinality(HeldPtrs) < MaxHeld /\ Zalloc(1)
    \/ \E p \in HeldPtrs : Dealloc(p)
    \/ \E f \in DOMAIN mem, e \in Garbage(ALLOC_START) : WriteFrame(f, 1, e)
    \/ \E vp \in MapPairs, b \in MapBits : Map(vp[1], vp[2], b, 0)
    \/ \E v \in VAddrs : VirtToPhys(v)
    \/ Unmap
    \/ \E r \in IdRanges : IdMapRange(r[1], r[2], EntryRW)

SpecVM == InitVM /\ [][NextVM]_vars

\* the mapper with map calls at start levels 0, 1 and 2
NextSP ==
    \/ Cardinality(HeldPtrs) < MaxHeld /\ Zalloc(1)
    \/ \E p \in HeldPtrs : Dealloc(p)
    \/ \E f \in DOMAIN mem, e \in Garbage(ALLOC_START) : WriteFrame(f, 1, e)
    \/ \E t \in SuperMaps : Map(t[1], t[2], EntryRW, t[3])
    \/ \E v \in SuperVAddrs : VirtToPhys(v)

SpecSP == InitVM /\ [][NextSP]_vars

\* the smallest frame count whose descriptors do not fit one page
TwoPageHeap == PAGE_SIZE \div PageDescSize + 1

\* HEAP_SIZE / PAGE_SIZE of the heaps of the heap-size specification: two
\* whose descriptor array fits a page and one whose array spans two
HeapSizes == {VMHeapPages, HeapPages, TwoPageHeap}

\* the state after page::init() for each of the heap sizes
InitHeap == \E np \in HeapSizes : InitWith(np)

\* page counts: single frames, MaxCount frames and the largest count the scan
\* of alloc accepts
HeapCounts == {1, MaxCount, num_pages(HEAP_SIZE) - 1}

\* no allocation of more than MaxCount frames is held
NoLongRun == \A l \in live : l.count <= MaxCount

\* the allocator over heaps of each size, callers holding up to MaxLive
\* allocations and giving them back; once an allocation of more than MaxCount
\* frames is held only init follows
NextHeap ==
    \/ page_init
    \/ \E n \in HeapCounts : NoLongRun /\ Cardinality(HeldPtrs) < MaxLive /\ Alloc(n)
    \/ \E p \in HeldPtrs : NoLongRun /\ Dealloc(p)

SpecHeap == InitHeap /\ [][NextHeap]_vars

(***************************************************************************)
(* Properties of the allocator                                             *)
(***************************************************************************)
IsAlloc == last.op \in {"alloc", "zalloc"}

\* the descriptor index of the latest call's address
LastIndex == PageDiff(last.ptr, ALLOC_START)

\* a dealloc whose address lies in one of the managed frames
DeallocInArray ==
    /\ last.op = "dealloc"
    /\ last.ptr # NULL
    /\ ~AddrLess(last.ptr, ALLOC_START)
    /\ LastIndex \in DOMAIN pages

\* descriptors j..j+n-1 exist and are all free
AllFree(pg, j, n) == \A k \in j..(j + n - 1) : k \in DOMAIN pg /\ ~is_taken(pg[k])

\* from index i on, a descriptor that is not taken comes before any that is last
ChainBroken(pg, i) ==
    \E k \in DOMAIN pg :
        /\ k >= i
        /\ ~is_taken(pg[k])
        /\ \A j \in i..(k - 1) : is_taken(pg[j]) /\ ~is_last(pg[j])

\* C1: a dealloc of the address the alloc just before it returned leaves the
\* descriptor table as it was before that alloc, and returns
C1_RoundTrip ==
    (last.op = "dealloc" /\ last.rel = "undo") => (status = "run" /\ pages = snap)

C1_Witness ==
    /\ last.op = "dealloc"
    /\ last.rel = "undo"
    /\ last.n >= 2
    /\ status = "run"
    /\ misuse = 0
    /\ \E i \in DOMAIN pages : is_taken(pages[i])

\* C2: while only live allocations have been given back, the page ranges of
\* two live allocations are disjoint
C2_Disjoint ==
    misuse = 0 =>
        \A l1 \in live, l2 \in live :
            l1 # l2 => (Range(l1) \cap Range(l2) = {} /\ l1.addr.off = 0)

C2_Witness ==
    /\ misuse = 0
    /\ Cardinality(live) >= 3
    /\ \E l \in live : l.count >= 2
    /\ last.op = "alloc"
    /\ last.some
    /\ LastIndex < Cardinality(live)

\* C6: an alloc of more pages than there are free frames returns the failure
\* sentinel, does not halt and leaves every descriptor unchanged
C6_Claim ==
    (IsAlloc /\ last.n > Cardinality({i \in DOMAIN snap : is_free(snap[i])}))
        => (status = "run" /\ last.ptr = NULL /\ pages = snap)

\* C7: a successful alloc returns ALLOC_START + i * PAGE_SIZE for the smallest
\* index i whose n descriptors were all free
C7_FirstFit ==
    (IsAlloc /\ last.some) =>
        /\ status = "run"
        /\ last.ptr = AddrAdd(ALLOC_START, LastIndex * PAGE_SIZE)
        /\ AllFree(snap, LastIndex, last.n)
        /\ \A j \in 0..(LastIndex - 1) : ~AllFree(snap, j, last.n)

\* three single-frame allocations, the second given back, and alloc(1) returns
\* the second frame again
C7_Witness ==
    /\ last.op = "alloc"
    /\ last.some
    /\ last.n = 1
    /\ last.ptr = AddrAdd(ALLOC_START, PAGE_SIZE)
    /\ misuse = 0
    /\ snap = [i \in DOMAIN pages |-> IF i \in {0, 2} THEN Taken + Last ELSE Empty]
    /\ live = {[addr |-> AddrAdd(ALLOC_START, k * PAGE_SIZE), count |-> 1, by |-> "caller"] :
                   k \in 0..2}

\* C8: a dealloc of a frame address whose descriptor chain reaches a
\* descriptor that is not taken before one that is last, in particular a second
\* dealloc of an address just freed, ends in the fatal halt
C8_DoubleFree ==
    /\ (DeallocInArray /\ last.rel # "undo" /\ ChainBroken(snap, LastIndex))
           => status = "panic"
    /\ (DeallocInArray /\ last.rel = "again") => status = "panic"

C8_Witness ==
    /\ DeallocInArray
    /\ last.rel = "again"
    /\ status = "panic"
    /\ misuse = 0

\* a dealloc of the start of a run whose tail was freed before
C8_WitnessChain ==
    /\ DeallocInArray
    /\ last.rel = "none"
    /\ is_taken(snap[LastIndex])
    /\ ChainBroken(snap, LastIndex)
    /\ status = "panic"

\* C9: a dealloc of an address whose frame index is not one of the num_frames
\* descriptors ends in the fatal halt and changes no descriptor
C9_Claim ==
    (/\ last.op = "dealloc"
     /\ last.ptr # NULL
     /\ (AddrLess(last.ptr, ALLOC_START) \/ LastIndex >= num_pages(HEAP_SIZE)))
        => (status = "panic" /\ pages = snap)

\* the descriptor indices of the frames of the allocation l
RunOf(l) ==
    PageDiff(l.addr, ALLOC_START) .. (PageDiff(l.addr, ALLOC_START) + l.count - 1)

\* the table with the first n descriptors taken, the n-th also last
FirstTaken(pg, n) ==
    [i \in DOMAIN pg |-> IF i < n - 1 THEN Taken ELSE IF i = n - 1 THEN Taken + Last ELSE Empty]

\* C13: init leaves each of the HEAP_SIZE / PAGE_SIZE descriptors Empty and
\* ALLOC_START at the smallest page-aligned address not below HEAP_START plus
\* the descriptor count; an alloc on the table init leaves returns ALLOC_START
\* and marks the first descriptors as on a fresh allocator
C13_InitResets ==
    /\ last.op = "init" =>
          /\ status = "run"
          /\ DOMAIN pages = 0..(HEAP_SIZE \div PAGE_SIZE - 1)
          /\ \A i \in DOMAIN pages : pages[i] = Empty
          /\ ALLOC_START.off = 0
          /\ ~AddrLess(ALLOC_START, AddrAdd(HEAP_START, HEAP_SIZE \div PAGE_SIZE))
          /\ AddrLess(ALLOC_START, AddrAdd(HEAP_START, HEAP_SIZE \div PAGE_SIZE + PAGE_SIZE))
    /\ (IsAlloc /\ status = "run" /\ (\A i \in DOMAIN snap : snap[i] = Empty)
            /\ last.n < HEAP_SIZE \div PAGE_SIZE)
          => (last.ptr = ALLOC_START /\ pages = FirstTaken(snap, last.n))

\* init called while allocations exist
C13_Witness ==
    /\ last.op = "init"
    /\ Cardinality({i \in DOMAIN snap : is_taken(snap[i])}) >= 3
    /\ \E i \in DOMAIN snap : is_last(snap[i]) /\ i > 0
    /\ misuse = 0

\* C14: print_page_allocations, called where only live start addresses were
\* deallocated, returns and changes neither a descriptor nor ALLOC_START
C14_PrintNoEffect ==
    [][(last'.op = "print" /\ misuse = 0)
          => (status' = "run" /\ UNCHANGED <<pages, ALLOC_START, HEAP_SIZE>>)]_vars

\* the enumeration over a table holding a run of two frames and another run
C14_Witness ==
    /\ last.op = "print"
    /\ status = "run"
    /\ misuse = 0
    /\ last.n >= 3
    /\ Cardinality(live) >= 2
    /\ \E i \in DOMAIN pages : is_free(pages[i]) /\ \E j \in DOMAIN pages : j > i /\ is_taken(pages[j])

\* C15: while only live start addresses were deallocated, no descriptor is
\* last without being taken, and the descriptors of a live allocation are all
\* taken with last set on the final one only
C15_WellFormed ==
    misuse = 0 =>
        /\ \A i \in DOMAIN pages : is_last(pages[i]) => is_taken(pages[i])
        /\ \A l \in live : \A k \in RunOf(l) :
              /\ k \in DOMAIN pages
              /\ is_taken(pages[k])
              /\ is_last(pages[k]) <=> (k = PageDiff(l.addr, ALLOC_START) + l.count - 1)

C15_Witness ==
    /\ misuse = 0
    /\ status = "run"
    /\ Cardinality(live) >= 2
    /\ \E l \in live : l.count >= 2
    /\ last.op = "dealloc"
    /\ \E i \in DOMAIN pages : is_free(pages[i]) /\ \E j \in DOMAIN pages : j > i /\ is_taken(pages[j])

\* the live allocations other than l that ptr lies in
InsideLive(ptr) ==
    {l \in live : ptr # l.addr /\ ~AddrLess(ptr, l.addr)
                    /\ AddrLess(ptr, AddrAdd(l.addr, l.count * PAGE_SIZE))}

\* a dealloc of the start address of a live allocation empties exactly its
\* descriptors
C16_ExactRun ==
    [][(last'.op = "dealloc" /\ misuse = 0)
          => \A l \in live : l.addr = last'.ptr =>
                /\ status' = "run"
                /\ pages' = [i \in DOMAIN pages |-> IF i \in RunOf(l) THEN Empty ELSE pages[i]]]_vars

\* C16: a dealloc of the start address of a live allocation empties exactly
\* its descriptors, and a dealloc of an address inside a live allocation that
\* is not its start does not return normally
C16_Claim ==
    [][(last'.op = "dealloc" /\ misuse = 0)
          => /\ \A l \in live : l.addr = last'.ptr =>
                   /\ status' = "run"
                   /\ pages' = [i \in DOMAIN pages |->
                                   IF i \in RunOf(l) THEN Empty ELSE pages[i]]
             /\ InsideLive(last'.ptr) # {} => status' # "run"]_vars

\* C17: an alloc that returns the failure sentinel found no start index i in
\* 0..num_frames - count with descriptors i..i+count-1 all free
C17_Claim ==
    (last.op = "alloc" /\ status = "run" /\ ~last.some) =>
        \A i \in 0..(HEAP_SIZE \div PAGE_SIZE - last.n) : ~AllFree(snap, i, last.n)

(***************************************************************************)
(* Properties of zalloc and the mapper                                     *)
(***************************************************************************)
\* the access bits Read, Write, Execute of a permission set
AccessBits(bits) == (bits \div 2) % 8

\* C3: when zalloc returns an address, every word of the region reads as zero
C3_Claim ==
    (last.op = "zalloc" /\ last.some) =>
        \A f \in LastIndex..(LastIndex + last.n - 1) : mem[f] = ZeroTable

\* C4: virt_to_phys of the vaddr that the map call just before it mapped at
\* start level 0 returns Some(paddr | (vaddr & 0xfff))
C4_Claim ==
    (last.op = "virt_to_phys" /\ last.rel = "query" /\ last.level = 0
        /\ AccessBits(last.bits) # 0 /\ last.pa.off = 0)
        => (status = "run" /\ last.some /\ last.ptr = Addr(last.pa.pn, last.va.off))

\* C5: with every map call at start level 0 on a root that began all zero,
\* virt_to_phys returns none for a vaddr whose page no map call targeted
C5_Claim ==
    (last.op = "virt_to_phys" /\ lvl0 /\ last.va.pn \notin mapped)
        => (status = "run" /\ ~last.some)

\* C10: a map call whose permission bits hold none of Read, Write, Execute
\* ends in the fatal halt with no frame allocated and no entry changed
C10_NoAccessBits ==
    [][(nmaps' # nmaps /\ AccessBits(last'.bits) = 0)
          => (status' = "panic" /\ UNCHANGED <<pages, mem, root, live, ALLOC_START>>)]_vars

C10_Witness ==
    /\ status = "panic"
    /\ last.op = "map"
    /\ AccessBits(last.bits) = 0
    /\ root # ZeroTable
    /\ \E i \in DOMAIN pages : is_free(pages[i]) /\ i < num_pages(HEAP_SIZE) - 1

\* the descriptor indices of the frames map allocated as tables and still holds
MapFrames == UNION {RunOf(l) : l \in {h \in live : h.by = "map"}}

\* C11: on a table built by map calls at start level 0, unmap empties the
\* descriptors of the frames map allocated as tables and changes no other
C11_Claim ==
    [][(last'.op = "unmap" /\ lvl0)
          => pages' = [i \in DOMAIN pages |-> IF i \in MapFrames THEN Empty ELSE pages[i]]]_vars

\* C18: unmap of a root built by map calls at start level 0 from an all-zero
\* root indexes no entry outside 0..511 and returns normally
C18_Claim ==
    (last.op = "unmap" /\ lvl0) => status = "run"

\* the pages of [align_down(start), align_up(end))
SpanPages(start, end) == start.pn .. (end.pn - (IF end.off = 0 THEN 1 ELSE 0))

\* v lies in [start, end)
InRange(v, start, end) == ~AddrLess(v, start) /\ AddrLess(v, end)

\* C12: id_map_range(root, start, end, bits) with start < end and no failed
\* allocation makes one map call for each page of
\* [align_down(start), align_up(end)) and for no other page, and afterwards
\* virt_to_phys(root, a) = Some(a) for the addresses a of [start, end)
C12_Claim ==
    [][(last'.op = "id_map_range" /\ AddrLess(last'.va, last'.pa) /\ last'.some)
          => /\ status' = "run"
             /\ last'.n = Cardinality(SpanPages(last'.va, last'.pa))
             /\ nmaps' = nmaps + last'.n
             /\ mapped' = mapped \cup SpanPages(last'.va, last'.pa)
             /\ \A v \in VAddrs : InRange(v, last'.va, last'.pa) =>
                   virt_to_phys(root', mem', ALLOC_START', v)
                       = [status |-> "run", some |-> TRUE, addr |-> v]]_vars

\* the number of the levels 2 and 1 at which no map call before has made the
\* entry on the walk of vaddr valid, the target pages of those calls being done
FreshLevels(done, vaddr) ==
    (IF \E q \in done : q \div (TableEntries ^ 2) = vaddr.pn \div (TableEntries ^ 2)
     THEN 0 ELSE 1)
        + (IF \E q \in done : q \div TableEntries = vaddr.pn \div TableEntries THEN 0 ELSE 1)

\* C19: a map call at start level 0 whose allocations succeed allocates one
\* frame for each of the levels 2 and 1 that no earlier map call has made valid
\* on its walk (2 into an all-zero root, 0 in a mapped 2 MiB region, 1 in
\* another 2 MiB region of a mapped 1 GiB region), and the pages mapped before
\* translate as they did before
C19_Claim ==
    [][(last'.op = "map" /\ last'.level = 0 /\ AccessBits(last'.bits) # 0 /\ last'.some)
          => /\ status' = "run"
             /\ last'.n = FreshLevels(mapped, last'.va)
             /\ Cardinality({i \in DOMAIN pages : pages'[i] # pages[i]}) = last'.n
             /\ \A v \in VAddrs : (v.pn \in mapped /\ v.pn # last'.va.pn) =>
                   virt_to_phys(root', mem', ALLOC_START', v)
                       = virt_to_phys(root, mem, ALLOC_START, v)]_vars

\* the address a is a multiple of 2^(12 + 9 * level)
AlignedAt(a, level) == a.off = 0 /\ a.pn % (TableEntries ^ level) = 0

\* C20: after map(root, vaddr, paddr, bits, L) with L in {1, 2} and vaddr and
\* paddr aligned to 2^(12 + 9L), virt_to_phys(root, vaddr + off) returns
\* Some(paddr + off) for off < 2^(12 + 9L)
C20_Superpage ==
    [][(/\ last'.op = "virt_to_phys"
        /\ last.op = "map"
        /\ last.level \in {1, 2}
        /\ AccessBits(last.bits) # 0
        /\ AlignedAt(last.va, last.level)
        /\ AlignedAt(last.pa, last.level)
        /\ last'.va.pn \div (TableEntries ^ last.level) = last.va.pn \div (TableEntries ^ last.level))
          => /\ status' = "run"
             /\ last'.some
             /\ last'.ptr = Addr(last.pa.pn + (last'.va.pn - last.va.pn), last'.va.off)]_vars

\* a query 0x20_1000 above the base of a 1 GiB leaf
C20_Witness ==
    /\ last.op = "virt_to_phys"
    /\ last.rel = "query"
    /\ last.level = 2
    /\ last.va = Addr(TableEntries + 1, 0)
    /\ last.some
    /\ last.ptr = Addr(PAddrA.pn + TableEntries + 1, 0)
    /\ nmaps >= 2

\* a query inside a 2 MiB leaf installed beside 4 KiB mappings
C20_WitnessLevel1 ==
    /\ last.op = "virt_to_phys"
    /\ last.rel = "query"
    /\ last.level = 1
    /\ last.va = Addr(TableEntries + 1, 0)
    /\ last.pa = PAddrC
    /\ last.some
    /\ last.ptr = Addr(PAddrC.pn + 1, 0)
    /\ nmaps >= 2

\* the valid branch entries among the entries of the table t
BranchesOf(t) == {t[k] : k \in {j \in Slots : is_valid(t[j]) /\ is_branch(t[j])}}

\* the addresses the valid branch entries of the root refer to
RootTables == {entry_table_addr(e) : e \in BranchesOf(root)}

\* the addresses the valid branch entries of the level-1 tables refer to
Lv1Tables ==
    UNION {{entry_table_addr(e) : e \in BranchesOf(mem[f])} :
              f \in {frame_of(mem, ALLOC_START, a) : a \in RootTables} \ {-1}}

\* no valid branch entry reachable from the root refers to the null address
NoNullBranch == NULL \notin RootTables \cup Lv1Tables

\* every table a valid branch entry reachable from the root refers to is a
\* frame whose descriptor is Taken and that map allocated and still holds
BranchesHeld ==
    \A a \in (RootTables \cup Lv1Tables) \ {NULL} :
        /\ frame_of(mem, ALLOC_START, a) # -1
        /\ is_taken(pages[frame_of(mem, ALLOC_START, a)])
        /\ \E l \in live : l.by = "map" /\ l.addr = a

\* C21: in every state reached by map and unmap calls, every valid branch
\* entry reachable from the root refers to a frame marked Taken that map
\* allocated as a table, and none refers to the null address or to a
\* deallocated frame
C21_Claim == NoNullBranch /\ BranchesHeld

\* C22: for every heap size, a successful alloc(count) returns a region
\* [addr, addr + count * PAGE_SIZE) with ALLOC_START <= addr and
\* addr + count * PAGE_SIZE <= HEAP_START + HEAP_SIZE
C22_Claim ==
    (status = "run" /\ last.op = "alloc" /\ last.some)
        => /\ ~AddrLess(last.ptr, ALLOC_START)
           /\ ~AddrLess(AddrAdd(HEAP_START, HEAP_SIZE), AddrAdd(last.ptr, last.n * PAGE_SIZE))

====
